---- MODULE Spec2Model ----
(***************************************************************************)
(* Flow/action construction layer of pkg/ovs/openflow (ofctrl_action.go).  *)
(* One FlowBuilder with its action handle (ofFlowAction) and the ConnTrack *)
(* sub-builder handle (ofCTAction) most recently returned by CT.           *)
(***************************************************************************)
EXTENDS Integers, Sequences, FiniteSets, TLC

VARIABLES
    matchers,     \* match predicates accumulated on the builder before Action()
    flowActions,  \* ordered actions held by the builder's ofctrl.Flow
    lastAction,   \* a.builder.ofFlow.lastAction, the pending terminal element
    ct,           \* the ofCTAction handle returned by the latest CT call
    ctDone,       \* number of CTDone calls made on that handle
    firstTerminal, \* the element written by the first terminal call, if any
    lastCall,     \* the latest call made by the caller: its name and arguments
    nCalls,       \* number of calls made so far
    installed,    \* the Flows held by the switch tables
    installLog,   \* the Flows handed to installation, in order
    fired,        \* clause IDs of the conjunction group matched by the packet
    groupMatched, \* whether the conjunction group is declared matched
    ifArgs,       \* arguments of the interface-name generator
    ifName        \* the generated interface name

builderVars ==
    <<matchers, flowActions, lastAction, ct, ctDone, firstTerminal, lastCall, nCalls>>

auxVars == <<installed, installLog, fired, groupMatched, ifArgs, ifName>>

vars == <<matchers, flowActions, lastAction, ct, ctDone, firstTerminal, lastCall, nCalls,
          installed, installLog, fired, groupMatched, ifArgs, ifName>>

parent == <<matchers, flowActions, lastAction>>

(***************************************************************************)
(* Bounds and caller inputs.                                               *)
(***************************************************************************)
MaxCalls == 3

\* Widths of the Go integer types the code narrows to. Values of type uint32 and
\* int are drawn from sets that fit their type, so they are carried unchanged.
Uint8 == 256
Uint16 == 65536

NxmFieldReg == "NXM_NX_REG"
NxmFieldCtMark == "NXM_NX_CT_MARK"
NxmFieldCtLabel == "NXM_NX_CT_LABEL"
NxmFieldARPOp == "NXM_OF_ARP_OP"
UnknownName == "NXM_NX_BOGUS"

Reg0 == "NXM_NX_REG0"

R32 == <<0, 31>>
R16 == <<0, 15>>
RInv == <<9, 3>>
ROob == <<0, 200>>

MatchSets == {{"in_port=5"}}
Ports == {3}
Tables == {10}
ResubmitTables == {2, 10}
Zones == {-1, 0, 5}
RegIDs == {0, 1}
Values == {7}
FieldNames == {Reg0, UnknownName}
MoveNames == {Reg0, NxmFieldCtLabel, UnknownName}
SetFieldKinds == {"SetDstMAC", "SetSrcMAC", "SetARPSha", "SetARPTha", "SetARPSpa",
                  "SetARPTpa", "SetSrcIP", "SetDstIP", "SetTunnelDst"}

(***************************************************************************)
(* Field registry (openflow13.FindFieldHeaderByName) and Range helpers.    *)
(***************************************************************************)
NilField == [known |-> FALSE, name |-> "", Length |-> 0]

\* Byte length of the registered fields the caller inputs can name.
FieldLength(name) ==
    CASE name = NxmFieldCtLabel -> 16
      [] name = NxmFieldARPOp -> 2
      [] OTHER -> 4

RegisteredNames ==
    {NxmFieldReg \o ToString(n) : n \in 0..15}
        \cup {NxmFieldCtMark, NxmFieldCtLabel, NxmFieldARPOp}

FindFieldHeaderByName(name) ==
    IF name \in RegisteredNames
    THEN [field |-> [known |-> TRUE, name |-> name, Length |-> FieldLength(name)],
          err |-> FALSE]
    ELSE [field |-> NilField, err |-> TRUE]

getFieldRange(name) ==
    LET r == FindFieldHeaderByName(name)
    IN  IF r.err
        THEN [field |-> r.field, rng |-> <<0, 0>>, err |-> TRUE]
        ELSE [field |-> r.field,
              rng |-> <<0, r.field.Length * 8 - 1>>,
              err |-> FALSE]

\* Range.length(): end - start + 1. The Go value is a uint32; every use narrows
\* it to uint16, and 2^16 divides 2^32, so the narrowing is applied to this value.
length(rng) == rng[2] - rng[1] + 1

\* Range.ToNXRange(): the NXRange with the same two offsets.
ToNXRange(rng) == [start |-> rng[1], end |-> rng[2]]

\* NXRange.ToOfsBits(): (ofs << 6) | (nBits - 1) narrowed to uint16.
ToOfsBits(nx) == (nx.start * 64 + (nx.end - nx.start)) % Uint16

RegName_Fixed(regID) == NxmFieldReg \o "0"

RegName(regID) == NxmFieldReg \o ToString(regID)

(***************************************************************************)
(* Initial state: a builder fresh from Table.BuildFlow with its matches.   *)
(***************************************************************************)
NoAction == [type |-> "nil"]

NoCT == [exists |-> FALSE, commit |-> FALSE, force |-> FALSE,
         ctTable |-> 0, ctZone |-> 0, actions |-> <<>>]

NoArgs == [kind |-> "none", name |-> "", namespace |-> ""]

AuxInit ==
    /\ installed = {}
    /\ installLog = <<>>
    /\ fired = {}
    /\ groupMatched = FALSE
    /\ ifArgs = NoArgs
    /\ ifName = ""

BuilderInit ==
    /\ matchers \in MatchSets
    /\ flowActions = <<>>
    /\ lastAction = NoAction
    /\ ct = NoCT
    /\ ctDone = 0
    /\ firstTerminal = NoAction
    /\ lastCall = [op |-> "none", args |-> <<>>]
    /\ nCalls = 0

Init == BuilderInit /\ AuxInit

\* One call made by the caller through the fluent interface.
Call(op, args) ==
    /\ nCalls < MaxCalls
    /\ nCalls' = nCalls + 1
    /\ lastCall' = [op |-> op, args |-> args]
    /\ UNCHANGED auxVars

(***************************************************************************)
(* Terminal calls of ofFlowAction: each writes the lastAction slot.        *)
(***************************************************************************)
SetLastAction_Once(elem) ==
    /\ lastAction' = IF lastAction = NoAction THEN elem ELSE lastAction
    /\ firstTerminal' = IF firstTerminal = NoAction THEN elem ELSE firstTerminal
    /\ UNCHANGED <<matchers, flowActions, ct, ctDone>>

SetLastAction(elem) ==
    /\ lastAction' = elem
    /\ firstTerminal' = IF firstTerminal = NoAction THEN elem ELSE firstTerminal
    /\ UNCHANGED <<matchers, flowActions, ct, ctDone>>

Drop_Resubmit ==
    /\ Call("Drop", <<>>)
    /\ SetLastAction([type |-> "resubmit", hasPort |-> FALSE, port |-> 0, table |-> 0])

Drop ==
    /\ Call("Drop", <<>>)
    /\ SetLastAction([type |-> "drop"])

Output(port) ==
    /\ Call("Output", <<port>>)
    /\ SetLastAction([type |-> "output", port |-> port])

\* ofctrl.NewNXOutput resolves the field name; on a lookup error it returns a
\* nil *NXOutput and the error, which the caller discards.
NewNXOutput(name, start, end) ==
    IF FindFieldHeaderByName(name).err
    THEN [type |-> "nxOutputNil"]
    ELSE [type |-> "nxOutput", field |-> name, rng |-> [start |-> start, end |-> end]]

OutputFieldRangeBody(name, rng) ==
    SetLastAction(NewNXOutput(name, rng[1], rng[2]))

OutputFieldRange(name, rng) ==
    /\ Call("OutputFieldRange", <<name, rng>>)
    /\ OutputFieldRangeBody(name, rng)

OutputRegRange(regID, rng) ==
    /\ Call("OutputRegRange", <<regID, rng>>)
    /\ OutputFieldRangeBody(RegName(regID), rng)

OutputInPort ==
    /\ Call("OutputInPort", <<>>)
    /\ SetLastAction([type |-> "outputInPort"])

Resubmit(ofPort, table) ==
    /\ Call("Resubmit", <<ofPort, table>>)
    /\ SetLastAction([type |-> "resubmit", hasPort |-> TRUE, port |-> ofPort % Uint16,
                      table |-> table % Uint8])

ResubmitToTable_InPort(table) ==
    /\ Call("ResubmitToTable", <<table>>)
    /\ SetLastAction([type |-> "resubmit", hasPort |-> TRUE, port |-> 0,
                      table |-> table % Uint8])

ResubmitToTable(table) ==
    /\ Call("ResubmitToTable", <<table>>)
    /\ SetLastAction([type |-> "resubmit", hasPort |-> FALSE, port |-> 0,
                      table |-> table % Uint8])

Normal_Reset ==
    /\ Call("Normal", <<>>)
    /\ lastAction' = [type |-> "normal"]
    /\ flowActions' = <<>>
    /\ firstTerminal' = IF firstTerminal = NoAction THEN lastAction' ELSE firstTerminal
    /\ UNCHANGED <<matchers, ct, ctDone>>

Normal ==
    /\ Call("Normal", <<>>)
    /\ SetLastAction([type |-> "normal"])

(***************************************************************************)
(* Calls that add an action to the builder's ofctrl.Flow.                  *)
(***************************************************************************)
AddFlowAction_Prepend(action) ==
    /\ flowActions' = <<action>> \o flowActions
    /\ UNCHANGED <<matchers, lastAction, ct, ctDone, firstTerminal>>

AddFlowAction(action) ==
    /\ flowActions' = Append(flowActions, action)
    /\ UNCHANGED <<matchers, lastAction, ct, ctDone, firstTerminal>>

NoFlowAction == UNCHANGED <<matchers, flowActions, lastAction, ct, ctDone, firstTerminal>>

\* Flow.LoadReg: resolves the field by name; on a lookup error nothing is added
\* and the returned error is discarded by the caller.
LoadReg(name, value, nxrng) ==
    IF FindFieldHeaderByName(name).err
    THEN NoFlowAction
    ELSE AddFlowAction([type |-> "loadReg", field |-> name, value |-> value,
                        rng |-> nxrng])

\* Flow.MoveRegs: resolves both fields by name; same error handling.
MoveRegs(fromField, toField, fromNX, toNX) ==
    IF FindFieldHeaderByName(fromField).err \/ FindFieldHeaderByName(toField).err
    THEN NoFlowAction
    ELSE AddFlowAction([type |-> "moveRegs", from |-> fromField, to |-> toField,
                        fromRange |-> fromNX, toRange |-> toNX])

SetField(kind) ==
    /\ Call(kind, <<>>)
    /\ AddFlowAction([type |-> "setField", kind |-> kind])

LoadARPOperation(value) ==
    /\ Call("LoadARPOperation", <<value>>)
    /\ LoadReg(NxmFieldARPOp, value % Uint16, [start |-> 0, end |-> 15])

LoadRange_Validated(name, value, rng) ==
    /\ Call("LoadRange", <<name, value, rng>>)
    /\ IF rng[1] > rng[2] \/ rng[2] >= FieldLength(name) * 8
       THEN NoFlowAction
       ELSE LoadReg(name, value, ToNXRange(rng))

LoadRange(name, value, rng) ==
    /\ Call("LoadRange", <<name, value, rng>>)
    /\ LoadReg(name, value, ToNXRange(rng))

LoadRegRange(regID, value, rng) ==
    /\ Call("LoadRegRange", <<regID, value, rng>>)
    /\ LoadReg(RegName(regID), value, ToNXRange(rng))

MoveRangeBody(fromField, toField, fromRange, toRange) ==
    MoveRegs(fromField, toField, ToNXRange(fromRange), ToNXRange(toRange))

Move_Checked(fromField, toField) ==
    /\ Call("Move", <<fromField, toField>>)
    /\ LET from == getFieldRange(fromField)
           to == getFieldRange(toField)
       IN  IF length(from.rng) # length(to.rng)
           THEN NoFlowAction
           ELSE MoveRangeBody(fromField, toField, from.rng, to.rng)

Move(fromField, toField) ==
    /\ Call("Move", <<fromField, toField>>)
    /\ LET fromRange == getFieldRange(fromField).rng
           toRange == getFieldRange(fromField).rng
       IN  MoveRangeBody(fromField, toField, fromRange, toRange)

MoveRange(fromField, toField, fromRange, toRange) ==
    /\ Call("MoveRange", <<fromField, toField, fromRange, toRange>>)
    /\ MoveRangeBody(fromField, toField, fromRange, toRange)

DecTTL_ClearsLast ==
    /\ Call("DecTTL", <<>>)
    /\ flowActions' = Append(flowActions, [type |-> "decTTL"])
    /\ lastAction' = NoAction
    /\ UNCHANGED <<matchers, ct, ctDone, firstTerminal>>

DecTTL ==
    /\ Call("DecTTL", <<>>)
    /\ AddFlowAction([type |-> "decTTL"])

Conjunction_Terminal(conjID, clauseID, nClause) ==
    /\ Call("Conjunction", <<conjID, clauseID, nClause>>)
    /\ SetLastAction([type |-> "conjunction", conjID |-> conjID,
                      clauseID |-> clauseID % Uint8, nClause |-> nClause % Uint8])

Conjunction(conjID, clauseID, nClause) ==
    /\ Call("Conjunction", <<conjID, clauseID, nClause>>)
    /\ AddFlowAction([type |-> "conjunction", conjID |-> conjID,
                      clauseID |-> clauseID % Uint8, nClause |-> nClause % Uint8])

(***************************************************************************)
(* ConnTrack sub-builder.                                                  *)
(***************************************************************************)
CT_Force(commit, tableID, zone) ==
    /\ Call("CT", <<commit, tableID, zone>>)
    /\ ct' = [exists |-> TRUE, commit |-> commit, force |-> TRUE,
              ctTable |-> tableID % Uint8, ctZone |-> zone % Uint16,
              actions |-> <<>>]
    /\ ctDone' = 0
    /\ UNCHANGED <<parent, firstTerminal>>

CT(commit, tableID, zone) ==
    /\ Call("CT", <<commit, tableID, zone>>)
    /\ ct' = [exists |-> TRUE, commit |-> commit, force |-> FALSE,
              ctTable |-> tableID % Uint8, ctZone |-> zone % Uint16,
              actions |-> <<>>]
    /\ ctDone' = 0
    /\ UNCHANGED <<parent, firstTerminal>>

load_Leak(field, value, rng) ==
    /\ ct' = [ct EXCEPT !.actions =
                Append(@, [type |-> "nxRegLoad", ofsNbits |-> ToOfsBits(ToNXRange(rng)),
                           field |-> field, value |-> value])]
    /\ flowActions' = Append(flowActions,
                [type |-> "nxRegLoad", ofsNbits |-> ToOfsBits(ToNXRange(rng)),
                 field |-> field, value |-> value])
    /\ UNCHANGED <<matchers, lastAction, ctDone, firstTerminal>>

\* ofCTAction.load
load(field, value, rng) ==
    /\ ct' = [ct EXCEPT !.actions =
                Append(@, [type |-> "nxRegLoad", ofsNbits |-> ToOfsBits(ToNXRange(rng)),
                           field |-> field, value |-> value])]
    /\ UNCHANGED <<matchers, flowActions, lastAction, ctDone, firstTerminal>>

\* ofCTAction.move
move(fromField, toField, nBits, fromStart, toStart) ==
    /\ ct' = [ct EXCEPT !.actions =
                Append(@, [type |-> "nxRegMove", nBits |-> nBits, srcOfs |-> fromStart,
                           dstOfs |-> toStart, srcField |-> fromField,
                           dstField |-> toField])]
    /\ UNCHANGED <<matchers, flowActions, lastAction, ctDone, firstTerminal>>

LoadToMark(value) ==
    /\ ct.exists
    /\ Call("LoadToMark", <<value>>)
    /\ LET r == getFieldRange(NxmFieldCtMark)
       IN  load(r.field, value, r.rng)

LoadToLabelRange(value, rng) ==
    /\ ct.exists
    /\ Call("LoadToLabelRange", <<value, rng>>)
    /\ LET r == getFieldRange(NxmFieldCtLabel)
       IN  load(r.field, value, rng)

MoveToLabel_LabelLength(fromName, fromRng, labelRng) ==
    /\ ct.exists
    /\ Call("MoveToLabel", <<fromName, fromRng, labelRng>>)
    /\ LET fromField == FindFieldHeaderByName(fromName).field
           toField == FindFieldHeaderByName(NxmFieldCtLabel).field
       IN  move(fromField, toField, length(labelRng) % Uint16, fromRng[1] % Uint16,
                labelRng[1] % Uint16)

MoveToLabel(fromName, fromRng, labelRng) ==
    /\ ct.exists
    /\ Call("MoveToLabel", <<fromName, fromRng, labelRng>>)
    /\ LET fromField == FindFieldHeaderByName(fromName).field
           toField == FindFieldHeaderByName(NxmFieldCtLabel).field
       IN  move(fromField, toField, length(fromRng) % Uint16, fromRng[1] % Uint16,
                labelRng[1] % Uint16)

\* Flow.ConnTrack adds one connection-track action to the Flow's actions.
ConnTrack(commit, force, tableID, zoneID, execActions) ==
    flowActions' = Append(flowActions,
        [type |-> "ct", commit |-> commit, force |-> force, table |-> tableID,
         zone |-> zoneID, actions |-> execActions])

CTDone_Once ==
    /\ ct.exists
    /\ Call("CTDone", <<>>)
    /\ IF ctDone = 0
       THEN ConnTrack(ct.commit, ct.force, ct.ctTable, ct.ctZone, ct.actions)
       ELSE flowActions' = flowActions
    /\ ctDone' = ctDone + 1
    /\ UNCHANGED <<matchers, lastAction, ct, firstTerminal>>

CTDone ==
    /\ ct.exists
    /\ Call("CTDone", <<>>)
    /\ ConnTrack(ct.commit, ct.force, ct.ctTable, ct.ctZone, ct.actions)
    /\ ctDone' = ctDone + 1
    /\ UNCHANGED <<matchers, lastAction, ct, firstTerminal>>

(***************************************************************************)
(* Next-state relation.                                                    *)
(***************************************************************************)
TerminalCall ==
    \/ Drop
    \/ \E p \in Ports : Output(p)
    \/ \E n \in FieldNames, r \in {R32, ROob} : OutputFieldRange(n, r)
    \/ \E id \in {0}, r \in {R16, RInv} : OutputRegRange(id, r)
    \/ OutputInPort
    \/ \E p \in Ports, t \in ResubmitTables : Resubmit(p, t)
    \/ \E t \in ResubmitTables : ResubmitToTable(t)
    \/ Normal

FieldCall ==
    \/ \E k \in SetFieldKinds : SetField(k)
    \/ \E v \in {1} : LoadARPOperation(v)
    \/ \E n \in FieldNames, v \in Values, r \in {R32, ROob} : LoadRange(n, v, r)
    \/ \E id \in RegIDs, v \in Values, r \in {R16, RInv} : LoadRegRange(id, v, r)
    \/ \E f \in MoveNames, t \in MoveNames : Move(f, t)
    \/ \E t \in {Reg0, NxmFieldCtLabel}, tr \in {R32, R16, ROob} :
          MoveRange(Reg0, t, R32, tr)
    \/ DecTTL

SubBuilderCall ==
    \/ \E v \in Values : LoadToMark(v)
    \/ \E v \in Values, r \in {R16, ROob, RInv} : LoadToLabelRange(v, r)
    \/ \E n \in FieldNames, rs \in {<<R32, R32>>, <<R32, R16>>, <<RInv, R16>>} :
          MoveToLabel(n, rs[1], rs[2])

Next ==
    \/ TerminalCall
    \/ FieldCall
    \/ \E c \in {1, 2} : Conjunction(10, c, 2)
    \/ \E commit \in BOOLEAN, t \in Tables, z \in Zones : CT(commit, t, z)
    \/ SubBuilderCall
    \/ CTDone

Spec == Init /\ [][Next]_vars

(***************************************************************************)
(* Installation of finished Flows into the tables (Table.install).         *)
(***************************************************************************)
MaxInstalls == 3

InstallTables == {2, 3}
InstallMatches == {{"in_port=5"}, {"in_port=6"}}
InstallPriorities == {100, 200}
InstallActions == {<<[type |-> "drop"]>>, <<[type |-> "output", port |-> 3]>>,
                   <<[type |-> "decTTL"], [type |-> "normal"]>>}

BuiltFlows ==
    [table : InstallTables, match : InstallMatches, priority : InstallPriorities,
     actions : InstallActions]

\* The installation key of a Flow.
FlowKey(f) == <<f.table, f.match, f.priority>>

Install_Duplicate(f) ==
    /\ Len(installLog) < MaxInstalls
    /\ installed' = installed \cup {f}
    /\ installLog' = Append(installLog, f)
    /\ UNCHANGED <<builderVars, fired, groupMatched, ifArgs, ifName>>

\* Table.install: idempotent on the key, the new Flow replaces the old one.
Install(f) ==
    /\ Len(installLog) < MaxInstalls
    /\ installed' = {g \in installed : FlowKey(g) # FlowKey(f)} \cup {f}
    /\ installLog' = Append(installLog, f)
    /\ UNCHANGED <<builderVars, fired, groupMatched, ifArgs, ifName>>

NextInstall == \E f \in BuiltFlows : Install(f)

SpecInstall == Init /\ [][NextInstall]_vars

(***************************************************************************)
(* Conjunctive match: the flows built through Conjunction are the clauses  *)
(* of one group; a harness lets clauses match a packet and declares the    *)
(* group matched.                                                          *)
(***************************************************************************)
NClause == 3

ConjGroup == CHOOSE g \in {10} : TRUE

\* Clause IDs of the group that some built flow carries.
RegisteredClauses ==
    {flowActions[i].clauseID :
        i \in {j \in 1..Len(flowActions) :
                 /\ flowActions[j].type = "conjunction"
                 /\ flowActions[j].conjID = ConjGroup}}

\* The group matches once every clause ID 1..clauseCount has matched.
GroupMatch(firedIDs) == \A k \in 1..NClause : k \in firedIDs

\* The packet matches a flow that carries clause c of the group.
ClauseFires(c) ==
    /\ c \in RegisteredClauses
    /\ c \notin fired
    /\ fired' = fired \cup {c}
    /\ groupMatched' = GroupMatch(fired')
    /\ UNCHANGED <<builderVars, installed, installLog, ifArgs, ifName>>

NextConj ==
    \/ \E c \in 1..NClause : Conjunction(ConjGroup, c, NClause)
    \/ \E c \in 1..NClause : ClauseFires(c)

SpecConj == Init /\ [][NextConj]_vars

(***************************************************************************)
(* Interface names (package util): generateInterfaceName and its callers.  *)
(***************************************************************************)
interfaceNameLength == 15
interfacePrefixLength == 8
interfaceKeyLen == interfaceNameLength - (interfacePrefixLength + 1)

PodNames == {"a", "db", "web", "nginx", "coredns", "frontend", "kube-proxy",
             "antrea-agent-x7k2p"}
PodNamespaces == {"default", "kube-system", "prod", "dev", "staging", "monitoring"}
NodeNames == {"n1", "node-1", "worker7", "worker-2", "k8s-node-control-plane",
              "ip-10-0-0-1", "gke-pool-1-abcd", "m", "minikube", "master01"}

HexDigits == "0123456789abcdef"

HexChar(n) == SubSeq(HexDigits, n + 1, n + 1)

RECURSIVE HexString(_, _)
HexString(seed, n) ==
    IF n = 0 THEN ""
    ELSE HexString(seed, n - 1) \o HexChar((seed * n + n * n) % 16)

\* hex.EncodeToString(sha1(id)): 40 hexadecimal characters determined by id.
\* The digest is a stand-in for SHA-1 that keeps its length and alphabet.
HexSha1(id) == HexString(Len(id), 40)

generateInterfaceName(id, prefix) ==
    LET interfaceKey == HexSha1(id)
        pfx == IF Len(prefix) > interfacePrefixLength
               THEN SubSeq(prefix, 1, interfacePrefixLength)
               ELSE prefix
    IN  pfx \o "-" \o SubSeq(interfaceKey, 1, interfaceKeyLen)

GenerateContainerInterfaceName(podName, podNamespace) ==
    generateInterfaceName("pod/" \o podNamespace \o "/" \o podName, podName)

GenerateTunnelInterfaceName(nodeName) ==
    generateInterfaceName("node/" \o nodeName, nodeName)

NameInputs ==
    [kind : {"container"}, name : PodNames, namespace : PodNamespaces]
        \cup [kind : {"tunnel"}, name : NodeNames, namespace : {""}]

InitName ==
    /\ BuilderInit
    /\ installed = {}
    /\ installLog = <<>>
    /\ fired = {}
    /\ groupMatched = FALSE
    /\ ifArgs \in NameInputs
    /\ ifName = ""

GenerateContainer ==
    /\ ifArgs.kind = "container"
    /\ ifName = ""
    /\ ifName' = GenerateContainerInterfaceName(ifArgs.name, ifArgs.namespace)
    /\ UNCHANGED <<builderVars, installed, installLog, fired, groupMatched, ifArgs>>

GenerateTunnel ==
    /\ ifArgs.kind = "tunnel"
    /\ ifName = ""
    /\ ifName' = GenerateTunnelInterfaceName(ifArgs.name)
    /\ UNCHANGED <<builderVars, installed, installLog, fired, groupMatched, ifArgs>>

\* A second call with the same arguments.
GenerateAgain ==
    /\ ifName # ""
    /\ ifName' = IF ifArgs.kind = "container"
                 THEN GenerateContainerInterfaceName(ifArgs.name, ifArgs.namespace)
                 ELSE GenerateTunnelInterfaceName(ifArgs.name)
    /\ UNCHANGED <<builderVars, installed, installLog, fired, groupMatched, ifArgs>>

NextName == GenerateContainer \/ GenerateTunnel \/ GenerateAgain

SpecName == InitName /\ [][NextName]_vars

(***************************************************************************)
(* Vocabulary of the properties.                                           *)
(***************************************************************************)
TerminalOps == {"Drop", "Output", "OutputFieldRange", "OutputRegRange", "OutputInPort",
                "Resubmit", "ResubmitToTable", "Normal"}

FieldOps == SetFieldKinds \cup {"LoadARPOperation", "LoadRange", "LoadRegRange",
                                "Move", "MoveRange", "DecTTL"}

SubOps == {"LoadToMark", "LoadToLabelRange", "MoveToLabel"}

Resolves(name) == name \in RegisteredNames

IsPrefix(s, t) == Len(s) <= Len(t) /\ SubSeq(t, 1, Len(s)) = s

AppendsOne(s, t) == Len(t) = Len(s) + 1 /\ SubSeq(t, 1, Len(s)) = s

Last(s) == s[Len(s)]

CTCount(s) == Cardinality({i \in 1..Len(s) : s[i].type = "ct"})

\* The element a terminal call is expected to leave in the slot.
TerminalOf(call) ==
    CASE call.op = "Drop" -> [type |-> "drop"]
      [] call.op = "Output" -> [type |-> "output", port |-> call.args[1]]
      [] call.op = "OutputInPort" -> [type |-> "outputInPort"]
      [] call.op = "Normal" -> [type |-> "normal"]
      [] call.op = "Resubmit" ->
            [type |-> "resubmit", hasPort |-> TRUE, port |-> call.args[1],
             table |-> call.args[2]]
      [] call.op = "ResubmitToTable" ->
            [type |-> "resubmit", hasPort |-> FALSE, port |-> 0, table |-> call.args[1]]
      [] call.op \in {"OutputFieldRange", "OutputRegRange"} ->
            LET name == IF call.op = "OutputFieldRange" THEN call.args[1]
                        ELSE "NXM_NX_REG" \o ToString(call.args[1])
            IN  IF Resolves(name)
                THEN [type |-> "nxOutput", field |-> name,
                      rng |-> [start |-> call.args[2][1], end |-> call.args[2][2]]]
                ELSE [type |-> "nxOutputNil"]

(***************************************************************************)
(* C1. As stated: once a terminal call has been made, a second terminal    *)
(* call is rejected and the terminal action of the first call stays.       *)
(***************************************************************************)
C1_FirstTerminalKept == firstTerminal # NoAction => lastAction = firstTerminal

\* C1 (amended): a terminal call is never rejected; whatever the slot held, the
\* slot holds the action of the latest terminal call, so a second terminal call
\* replaces the action of the first.
C1_SecondTerminalOverwrites ==
    [][lastCall'.op \in TerminalOps => lastAction' = TerminalOf(lastCall')]_vars

C1_Witness ==
    /\ firstTerminal.type = "drop"
    /\ lastCall.op = "Output"
    /\ lastAction.type = "output"

(***************************************************************************)
(* C2. As stated: once a terminal call has been made, no later call        *)
(* changes the match set, the action sequence or the terminal action.      *)
(***************************************************************************)
C2_FinalizedFrozen ==
    [][lastAction # NoAction => UNCHANGED <<matchers, flowActions, lastAction>>]_vars

\* C2 (amended): after a terminal call, later calls never change the match set
\* and never remove or reorder recorded actions, and a call that is not a
\* terminal call leaves the terminal action unchanged; the action sequence may
\* still grow at its end.
C2_FinalizedOnlyGrows ==
    [][lastAction # NoAction =>
          /\ matchers' = matchers
          /\ IsPrefix(flowActions, flowActions')
          /\ (lastCall'.op \notin TerminalOps => lastAction' = lastAction)]_vars

C2_Witness ==
    /\ nCalls = 2
    /\ lastAction.type = "drop"
    /\ lastCall.op = "DecTTL"
    /\ flowActions = <<[type |-> "decTTL"]>>

(***************************************************************************)
(* C3. For every sequence of field-mutating calls followed by one terminal *)
(* call, each field-mutating call adds exactly one action at the end of    *)
(* the action sequence (none lost, none duplicated, call order kept) and   *)
(* the terminal call fills the terminal slot without touching them.        *)
(***************************************************************************)
C3_FieldActionsInCallOrder ==
    [][/\ lastCall'.op \in FieldOps =>
            AppendsOne(flowActions, flowActions') /\ lastAction' = lastAction
       /\ lastCall'.op \in TerminalOps =>
            flowActions' = flowActions /\ lastAction' # NoAction]_vars

(***************************************************************************)
(* C4. LoadToMark, LoadToLabelRange and MoveToLabel leave the parent       *)
(* builder (match predicates, action sequence, terminal action) exactly as *)
(* it was; only CTDone adds a connection-track action to the parent, and   *)
(* the nested actions never appear among the parent's own actions.         *)
(***************************************************************************)
C4_SubBuilderInvisible ==
    [][/\ lastCall'.op \in SubOps => UNCHANGED <<matchers, flowActions, lastAction>>
       /\ lastCall'.op # "CTDone" => CTCount(flowActions') = CTCount(flowActions)
       /\ \A i \in 1..Len(flowActions') :
             flowActions'[i].type \notin {"nxRegLoad", "nxRegMove"}]_vars

C4_Witness ==
    /\ ct.exists
    /\ Len(ct.actions) = 2
    /\ ctDone = 0
    /\ flowActions = <<>>
    /\ lastAction = NoAction

(***************************************************************************)
(* C5. As stated: one ConnTrack sub-builder attaches its connection-track  *)
(* action at most once; a second CTDone on it adds nothing to the parent.  *)
(***************************************************************************)
C5_CTDoneOnce ==
    [][(lastCall'.op = "CTDone" /\ ctDone >= 1) => flowActions' = flowActions]_vars

\* C5 (amended): every CTDone call, the second and later ones on one sub-builder
\* included, adds one more connection-track action at the end of the parent's
\* actions, carrying the nested actions accumulated up to that call.
C5_EveryCTDoneAttaches ==
    [][lastCall'.op = "CTDone" =>
          /\ AppendsOne(flowActions, flowActions')
          /\ Last(flowActions').type = "ct"
          /\ Last(flowActions').actions = ct.actions]_vars

C5_Witness ==
    /\ ctDone = 2
    /\ CTCount(flowActions) = 2
    /\ lastCall.op = "CTDone"

(***************************************************************************)
(* C6. As stated: CTDone puts the connection-track action into the         *)
(* builder's terminal-action slot, as Drop/Output/Resubmit/Normal do.      *)
(***************************************************************************)
C6_CTDoneFillsTerminalSlot ==
    [][lastCall'.op = "CTDone" => lastAction'.type = "ct"]_vars

CtMarkField == [known |-> TRUE, name |-> "NXM_NX_CT_MARK", Length |-> 4]

\* C6 (amended): CT opens a sub-builder holding {commit, force = false, table as
\* uint8, zone as uint16} and no nested action; each sub-builder call adds one
\* nested action at the end (LoadToMark(v): a load of v into bits 0..31 of
\* ct_mark); CTDone adds a connection-track action with exactly those four values
\* and the nested actions in call order at the end of the parent's action
\* sequence, and leaves the terminal-action slot as it was.
C6_CTDoneAppendsCTAction ==
    [][/\ lastCall'.op = "CT" =>
            ct' = [exists |-> TRUE, commit |-> lastCall'.args[1], force |-> FALSE,
                   ctTable |-> lastCall'.args[2] % 256,
                   ctZone |-> lastCall'.args[3] % 65536, actions |-> <<>>]
       /\ lastCall'.op \in SubOps =>
            /\ AppendsOne(ct.actions, ct'.actions)
            /\ ct' = [ct EXCEPT !.actions = ct'.actions]
       /\ lastCall'.op = "LoadToMark" =>
            Last(ct'.actions) = [type |-> "nxRegLoad", ofsNbits |-> 31,
                                 field |-> CtMarkField, value |-> lastCall'.args[1]]
       /\ lastCall'.op = "CTDone" =>
            /\ flowActions' = Append(flowActions,
                  [type |-> "ct", commit |-> ct.commit, force |-> FALSE,
                   table |-> ct.ctTable, zone |-> ct.ctZone, actions |-> ct.actions])
            /\ lastAction' = lastAction
            /\ ct' = ct]_vars

C6_Witness ==
    /\ nCalls = 3
    /\ lastCall.op = "CTDone"
    /\ lastAction = NoAction
    /\ flowActions =
          <<[type |-> "ct", commit |-> TRUE, force |-> FALSE, table |-> 10, zone |-> 5,
             actions |-> <<[type |-> "nxRegLoad", ofsNbits |-> 31,
                            field |-> CtMarkField, value |-> 7]>>]>>

(***************************************************************************)
(* C7. As stated: a range-taking action whose range is inverted or ends    *)
(* beyond the field's width fails and adds no action to the builder.       *)
(***************************************************************************)
FieldBits(name) ==
    CASE name = "NXM_NX_CT_LABEL" -> 128
      [] name = "NXM_OF_ARP_OP" -> 16
      [] OTHER -> 32

InvalidRange(name, r) == Resolves(name) /\ (r[1] > r[2] \/ r[2] >= FieldBits(name))

RegOf(regID) == "NXM_NX_REG" \o ToString(regID)

CallHasInvalidRange(call) ==
    CASE call.op = "LoadRange" -> InvalidRange(call.args[1], call.args[3])
      [] call.op = "LoadRegRange" -> InvalidRange(RegOf(call.args[1]), call.args[3])
      [] call.op = "OutputFieldRange" -> InvalidRange(call.args[1], call.args[2])
      [] call.op = "OutputRegRange" -> InvalidRange(RegOf(call.args[1]), call.args[2])
      [] call.op = "MoveRange" ->
            /\ Resolves(call.args[1]) /\ Resolves(call.args[2])
            /\ \/ InvalidRange(call.args[1], call.args[3])
               \/ InvalidRange(call.args[2], call.args[4])
      [] call.op = "LoadToLabelRange" -> InvalidRange("NXM_NX_CT_LABEL", call.args[2])
      [] call.op = "MoveToLabel" ->
            \/ InvalidRange(call.args[1], call.args[2])
            \/ InvalidRange("NXM_NX_CT_LABEL", call.args[3])
      [] OTHER -> FALSE

C7_InvalidRangeAddsNothing ==
    [][CallHasInvalidRange(lastCall') => UNCHANGED <<flowActions, lastAction, ct>>]_vars

AsGiven(r) == [start |-> r[1], end |-> r[2]]

\* C7 (amended): no range-taking action validates its range and none fails with
\* InvalidRange. Whenever the field names resolve, the action is added whatever
\* the range is, and it carries the offsets exactly as given, never clamped; a
\* sub-builder load carries them encoded as (start * 64 + end - start) mod 2^16.
C7_RangeRecordedAsGiven ==
    [][LET c == lastCall'
       IN  /\ (c.op = "LoadRange" /\ Resolves(c.args[1])) =>
                flowActions' = Append(flowActions,
                    [type |-> "loadReg", field |-> c.args[1], value |-> c.args[2],
                     rng |-> AsGiven(c.args[3])])
           /\ c.op = "LoadRegRange" =>
                flowActions' = Append(flowActions,
                    [type |-> "loadReg", field |-> RegOf(c.args[1]),
                     value |-> c.args[2], rng |-> AsGiven(c.args[3])])
           /\ (c.op = "OutputFieldRange" /\ Resolves(c.args[1])) =>
                lastAction' = [type |-> "nxOutput", field |-> c.args[1],
                               rng |-> AsGiven(c.args[2])]
           /\ c.op = "OutputRegRange" =>
                lastAction' = [type |-> "nxOutput", field |-> RegOf(c.args[1]),
                               rng |-> AsGiven(c.args[2])]
           /\ (c.op = "MoveRange" /\ Resolves(c.args[1]) /\ Resolves(c.args[2])) =>
                flowActions' = Append(flowActions,
                    [type |-> "moveRegs", from |-> c.args[1], to |-> c.args[2],
                     fromRange |-> AsGiven(c.args[3]), toRange |-> AsGiven(c.args[4])])
           /\ c.op = "LoadToLabelRange" =>
                /\ AppendsOne(ct.actions, ct'.actions)
                /\ Last(ct'.actions).ofsNbits =
                      (c.args[2][1] * 64 + c.args[2][2] - c.args[2][1]) % 65536
           /\ c.op = "MoveToLabel" =>
                /\ AppendsOne(ct.actions, ct'.actions)
                /\ Last(ct'.actions).srcOfs = c.args[2][1]
                /\ Last(ct'.actions).dstOfs = c.args[3][1]]_vars

C7_Witness ==
    /\ lastCall = [op |-> "LoadRange", args |-> <<"NXM_NX_REG0", 7, <<0, 200>>>>]
    /\ Len(flowActions) >= 1
    /\ Last(flowActions).type = "loadReg"
    /\ Last(flowActions).rng = [start |-> 0, end |-> 200]

(***************************************************************************)
(* C8. As stated: Move between two known fields of different widths fails  *)
(* and adds no move action.                                                *)
(***************************************************************************)
MoveOfUnequalWidths(call) ==
    /\ call.op = "Move"
    /\ Resolves(call.args[1]) /\ Resolves(call.args[2])
    /\ FieldBits(call.args[1]) # FieldBits(call.args[2])

C8_UnequalMoveAddsNothing ==
    [][MoveOfUnequalWidths(lastCall') => flowActions' = flowActions]_vars

\* C8 (amended): Move between two known fields of different widths is not
\* rejected when the flow is built: it adds one move action from fromField to
\* toField at the end of the action sequence.
C8_UnequalMoveIsAdded ==
    [][MoveOfUnequalWidths(lastCall') =>
          /\ AppendsOne(flowActions, flowActions')
          /\ Last(flowActions').type = "moveRegs"
          /\ Last(flowActions').from = lastCall'.args[1]
          /\ Last(flowActions').to = lastCall'.args[2]]_vars

C8_Witness ==
    /\ lastCall = [op |-> "Move", args |-> <<"NXM_NX_REG0", "NXM_NX_CT_LABEL">>]
    /\ Len(flowActions) >= 1
    /\ Last(flowActions).type = "moveRegs"
    /\ Last(flowActions).to = "NXM_NX_CT_LABEL"

(***************************************************************************)
(* C9. As stated: MoveToLabel appends a nested move only when fromRange    *)
(* and labelRange have the same length, and appends nothing otherwise.     *)
(***************************************************************************)
RangeLen(r) == r[2] - r[1] + 1

C9_MoveToLabelChecksLength ==
    [][lastCall'.op = "MoveToLabel" =>
          IF RangeLen(lastCall'.args[2]) = RangeLen(lastCall'.args[3])
          THEN AppendsOne(ct.actions, ct'.actions)
          ELSE ct'.actions = ct.actions]_vars

\* C9 (amended): MoveToLabel makes no length check: it always appends one nested
\* move into ct_label of fromRange.length bits (as uint16); of labelRange only
\* the start offset is used, so the number of bits written equals
\* labelRange.length only when the caller passes ranges of equal length.
C9_MoveToLabelUsesFromLength ==
    [][lastCall'.op = "MoveToLabel" =>
          /\ AppendsOne(ct.actions, ct'.actions)
          /\ Last(ct'.actions).type = "nxRegMove"
          /\ Last(ct'.actions).nBits = RangeLen(lastCall'.args[2]) % 65536
          /\ Last(ct'.actions).dstField.name = "NXM_NX_CT_LABEL"]_vars

C9_Witness ==
    /\ lastCall.op = "MoveToLabel"
    /\ lastCall.args[2] = <<0, 31>>
    /\ lastCall.args[3] = <<0, 15>>
    /\ Last(ct.actions).nBits = 32

(***************************************************************************)
(* C10. A call that names a field with no registered mapping adds no       *)
(* action: no nested action with a nil field, no nil output element in the *)
(* terminal slot, nothing built from the placeholder range.                *)
(***************************************************************************)
CallNamesUnknownField(call) ==
    CASE call.op = "Move" -> ~Resolves(call.args[1]) \/ ~Resolves(call.args[2])
      [] call.op = "MoveToLabel" -> ~Resolves(call.args[1])
      [] call.op = "OutputFieldRange" -> ~Resolves(call.args[1])
      [] OTHER -> FALSE

C10_UnknownFieldAddsNothing ==
    [][/\ CallNamesUnknownField(lastCall') => UNCHANGED <<flowActions, lastAction, ct>>
       /\ lastAction'.type # "nxOutputNil"
       /\ \A i \in 1..Len(ct'.actions) :
             ct'.actions[i].type = "nxRegMove" => ct'.actions[i].srcField.known]_vars

(***************************************************************************)
(* C11. Every connection-track action attached by CTDone has force = false *)
(* and, when CT was given zone <= 0, carries zone 0 (no zone isolation):   *)
(* the only zones ever attached are 0 and the positive zones given to CT.  *)
(***************************************************************************)
C11_NonPositiveZoneIsUnset ==
    \A i \in 1..Len(flowActions) :
        flowActions[i].type = "ct" =>
            /\ ~flowActions[i].force
            /\ flowActions[i].zone \in {0} \cup {z \in Zones : z > 0}

(***************************************************************************)
(* C14. A Flow built from a fresh builder with Drop as its only action     *)
(* call has exactly one action, the drop action, and no resubmit action.   *)
(***************************************************************************)
ActionCount == Len(flowActions) + (IF lastAction = NoAction THEN 0 ELSE 1)

C14_DropOnlyFlow ==
    (nCalls = 1 /\ lastCall.op = "Drop") =>
        /\ ActionCount = 1
        /\ lastAction = [type |-> "drop"]
        /\ \A i \in 1..Len(flowActions) : flowActions[i].type # "resubmit"

C14_Witness ==
    /\ nCalls = 1
    /\ lastCall.op = "Drop"
    /\ lastAction.type = "drop"

(***************************************************************************)
(* C15. Register names are a function of the register ID: LoadRegRange(id, *)
(* v, r) adds the action LoadRange("NXM_NX_REG<id>", v, r) adds, and       *)
(* OutputRegRange(id, r) sets the terminal action OutputFieldRange(        *)
(* "NXM_NX_REG<id>", r) sets; equal IDs resolve to the same field and      *)
(* different IDs to different fields.                                      *)
(***************************************************************************)
RegLiteral(regID) ==
    CASE regID = 0 -> "NXM_NX_REG0"
      [] regID = 1 -> "NXM_NX_REG1"

LoadActionOf(name, value, r) ==
    [type |-> "loadReg", field |-> name, value |-> value, rng |-> AsGiven(r)]

OutputActionOf(name, r) == [type |-> "nxOutput", field |-> name, rng |-> AsGiven(r)]

C15_RegisterNamesFromID ==
    [][LET c == lastCall'
       IN  /\ (c.op = "LoadRange" /\ Resolves(c.args[1])) =>
                flowActions' = Append(flowActions,
                                      LoadActionOf(c.args[1], c.args[2], c.args[3]))
           /\ c.op = "LoadRegRange" =>
                flowActions' = Append(flowActions,
                    LoadActionOf(RegLiteral(c.args[1]), c.args[2], c.args[3]))
           /\ (c.op = "OutputFieldRange" /\ Resolves(c.args[1])) =>
                lastAction' = OutputActionOf(c.args[1], c.args[2])
           /\ c.op = "OutputRegRange" =>
                lastAction' = OutputActionOf(RegLiteral(c.args[1]), c.args[2])
           /\ \A a, b \in RegIDs :
                (a = b) <=> (FindFieldHeaderByName(RegName(a)).field
                               = FindFieldHeaderByName(RegName(b)).field)]_vars

C15_Witness ==
    /\ lastCall.op = "LoadRegRange"
    /\ lastCall.args[1] = 1
    /\ Len(flowActions) >= 1
    /\ Last(flowActions).field = "NXM_NX_REG1"

(***************************************************************************)
(* C17. ResubmitToTable(table) sets a terminal resubmit to table carrying  *)
(* no port; Resubmit(port, table) sets one carrying exactly that port; the *)
(* recorded table is the table argument, whatever its value.               *)
(***************************************************************************)
C17_ResubmitTargets ==
    [][/\ lastCall'.op = "ResubmitToTable" =>
            /\ lastAction'.type = "resubmit"
            /\ ~lastAction'.hasPort
            /\ lastAction'.table = lastCall'.args[1]
       /\ lastCall'.op = "Resubmit" =>
            /\ lastAction'.type = "resubmit"
            /\ lastAction'.hasPort
            /\ lastAction'.port = lastCall'.args[1]
            /\ lastAction'.table = lastCall'.args[2]]_vars

C17_Witness ==
    /\ nCalls = 2
    /\ firstTerminal = [type |-> "resubmit", hasPort |-> TRUE, port |-> 3, table |-> 10]
    /\ lastCall = [op |-> "ResubmitToTable", args |-> <<2>>]
    /\ lastAction = [type |-> "resubmit", hasPort |-> FALSE, port |-> 0, table |-> 2]

(***************************************************************************)
(* C18. Move(fromField, toField) records a move whose source range is the  *)
(* full range of fromField and whose destination range is the full range   *)
(* of toField, each derived from its own field.                            *)
(***************************************************************************)
FullRange(name) == [start |-> 0, end |-> FieldBits(name) - 1]

C18_MoveResolvesBothSides ==
    [][(lastCall'.op = "Move" /\ Resolves(lastCall'.args[1])
           /\ Resolves(lastCall'.args[2])) =>
          /\ AppendsOne(flowActions, flowActions')
          /\ Last(flowActions').fromRange = FullRange(lastCall'.args[1])
          /\ Last(flowActions').toRange = FullRange(lastCall'.args[2])]_vars

(***************************************************************************)
(* C19. A call that is not Drop/Output*/Resubmit*/Normal never changes the *)
(* terminal-action slot, and the slot is empty while no such call has been *)
(* made.                                                                   *)
(***************************************************************************)
C19_NonTerminalKeepsSlot ==
    [][/\ lastCall'.op \notin TerminalOps => lastAction' = lastAction
       /\ firstTerminal' = NoAction => lastAction' = NoAction]_vars

C19_Witness ==
    /\ nCalls = 3
    /\ lastAction.type = "drop"
    /\ lastCall.op = "LoadToMark"
    /\ Len(ct.actions) = 1

(***************************************************************************)
(* C20. The builder holds one slot for the pending terminal action: a      *)
(* terminal call puts its own action there, whatever was there before, and *)
(* leaves the recorded actions, the matches and the sub-builder untouched. *)
(***************************************************************************)
C20_OnePendingTerminal ==
    [][lastCall'.op \in TerminalOps =>
          /\ lastAction' = TerminalOf(lastCall')
          /\ UNCHANGED <<flowActions, matchers, ct>>]_vars

C20_Witness ==
    /\ nCalls = 3
    /\ Len(flowActions) = 1
    /\ firstTerminal.type = "drop"
    /\ lastCall.op = "Normal"
    /\ lastAction = [type |-> "normal"]

(***************************************************************************)
(* C12. After any sequence of installs the tables hold at most one Flow    *)
(* per (table, match, priority), and for every key it is the Flow that was *)
(* installed last with that key: a second Flow with the same key and other *)
(* actions replaces the first and no duplicate entry appears.              *)
(***************************************************************************)
KeyOf(f) == <<f.table, f.match, f.priority>>

LastInstalledWith(k) ==
    LET idx == {i \in 1..Len(installLog) : KeyOf(installLog[i]) = k}
    IN  installLog[CHOOSE i \in idx : \A j \in idx : j <= i]

C12_InstallReplacesByKey ==
    /\ \A f, g \in installed : KeyOf(f) = KeyOf(g) => f = g
    /\ \A f \in installed : f = LastInstalledWith(KeyOf(f))
    /\ \A i \in 1..Len(installLog) : \E f \in installed : KeyOf(f) = KeyOf(installLog[i])

C12_Witness ==
    /\ Len(installLog) = 2
    /\ KeyOf(installLog[1]) = <<2, {"in_port=5"}, 100>>
    /\ KeyOf(installLog[2]) = <<2, {"in_port=5"}, 100>>
    /\ installLog[1].actions # installLog[2].actions
    /\ installed = {installLog[2]}

(***************************************************************************)
(* C13. Conjunction(conjID, clauseID, clauseCount) adds the clause to the  *)
(* Flow's actions and sets no terminal action; the group is declared       *)
(* matched exactly when every clause ID 1..clauseCount has matched, never  *)
(* on a strict subset.                                                     *)
(***************************************************************************)
C13_ConjunctionClauses ==
    [][/\ (nCalls' # nCalls /\ lastCall'.op = "Conjunction") =>
            /\ flowActions' = Append(flowActions,
                  [type |-> "conjunction", conjID |-> lastCall'.args[1],
                   clauseID |-> lastCall'.args[2], nClause |-> lastCall'.args[3]])
            /\ lastAction' = lastAction
       /\ groupMatched' <=> (fired' = 1..lastCall'.args[3])
       /\ fired' \subseteq {flowActions'[i].clauseID : i \in 1..Len(flowActions')}]_vars

C13_Witness ==
    /\ fired = {1, 2, 3}
    /\ groupMatched
    /\ lastAction = NoAction
    /\ Len(flowActions) = 3

(***************************************************************************)
(* C16. The generated container and tunnel interface names have length     *)
(* exactly 15 for every input, and a second call with the same arguments   *)
(* returns the same name.                                                  *)
(***************************************************************************)
C16_NameLengthIs15 ==
    [][/\ Len(ifName') = 15
       /\ ifName # "" => ifName' = ifName]_vars

TypeOK ==
    /\ matchers \in MatchSets
    /\ nCalls \in 0..MaxCalls
    /\ ctDone \in 0..MaxCalls
    /\ ct.exists \in BOOLEAN
    /\ Len(flowActions) <= nCalls
    /\ Len(ct.actions) <= nCalls
====
